---- MODULE Spec2Model ----
(***************************************************************************)
(* NeuroVision: the dependency graph built from a source tree               *)
(* (vision.py), the telemetry overlay kept per node and persisted to        *)
(* <root>/.ai/neuro_brain.json (neuro_architect.py), and the process-wide   *)
(* singleton through which the transport reaches it (mcp_server.py).        *)
(*                                                                         *)
(* Floats: activation_level and error_rate are IEEE doubles that only ever *)
(* hold 0.0 and the partial sums of 0.2 resp. 0.1.  A double is written as  *)
(* an integer, 100 to the tenth, the last digit carrying the rounding error *)
(* of the double: 0.6000000000000001 is 601, 0.7999999999999999 is 799.     *)
(***************************************************************************)
EXTENDS Integers, Sequences, FiniteSets, TLC

(***************************************************************************)
(* Bounds of the model.                                                     *)
(***************************************************************************)
\* ingestion events per run (each reads the clock once)
MaxEvents == 1
\* node records, and edge records, given to build_graph on its own
MaxRecords == 2

\* the events of one type applied to one NeuronState
MaxRun == 20
\* the edges of the graphs given to analyze_impact, every set of that many
\* edges or fewer between the nodes being one graph
MaxEdges == 3
\* the nodes of the longest chain given to analyze_impact
MaxChain == 23

(***************************************************************************)
(* Program constants.                                                       *)
(***************************************************************************)
\* 1.0, the cap of activation_level and error_rate
One == 1000
\* 0.2, added per execution event
ExecStep == 200
\* 0.1, added per error event
ErrStep == 100
\* logs[-5:], the log tail that to_dict keeps
LogTail == 5
\* ripple_list[:20]
RippleCap == 20
\* min(100.0, ...), the cap of risk_score
RiskCap == 100
\* the weight of a direct dependent, and of a ripple dependent, in risk_score
DirectWeight == 10
RippleWeight == 2

\* levels are held in thousandths; a sum of doubles that is not the exact
\* decimal is held one off it: 601 is 0.6000000000000001, 799 is
\* 0.7999999999999999
Rounding == 1

Min(a, b) == IF a <= b THEN a ELSE b

\* Python's a + b on the doubles that occur: the exact sum, but for the
\* operands where the nearest double of the sum is not the decimal one
\* (0.4 + 0.2 = 0.6000000000000001, 0.7 + 0.1 = 0.7999999999999999, ...).
FloatAdd(a, b) ==
    CASE a = 400 /\ b = 200 -> 601
      [] a = 601 /\ b = 200 -> 800
      [] a = 200 /\ b = 100 -> 301
      [] a = 301 /\ b = 100 -> 400
      [] a = 700 /\ b = 100 -> 799
      [] OTHER -> a + b

\* a map (Python dict) with one more key, or one key overwritten
Put(m, k, v) == (k :> v) @@ m

\* dict.update(other)
Update(m, other) == other @@ m

\* dict.get(k, default)
Get(m, k, default) == IF k \in DOMAIN m THEN m[k] ELSE default

EmptyMap == [k \in {} |-> ""]

\* s[-n:] of a list
LastN(s, n) == IF Len(s) <= n THEN s ELSE SubSeq(s, Len(s) - n + 1, Len(s))

(***************************************************************************)
(* vision.py: the scan of a source tree and the graph built from it.        *)
(* A source tree is a sequence of files in rglob order; a file is its path  *)
(* relative to the root, whether ast.parse accepts it, and the declarations *)
(* ast.walk meets, in order.                                                *)
(***************************************************************************)
DependencyNode(name, node_type, file_path) ==
    [name |-> name, node_type |-> node_type, file_path |-> file_path]

DependencyEdge(source, target, edge_type) ==
    [source |-> source, target |-> target, edge_type |-> edge_type]

\* the modules whose import is not an edge
StdModules == {"os", "sys", "json", "typing", "logging", "pathlib", "datetime", "ast"}

\* a declaration met by ast.walk
Import(module) == [kind |-> "import", name |-> module, bases |-> <<>>, owner |-> ""]
ClassDef(name, bases) == [kind |-> "class", name |-> name, bases |-> bases, owner |-> ""]
\* owner: the first class whose body holds the function, "" when there is none
FunctionDef(name, owner) == [kind |-> "function", name |-> name, bases |-> <<>>, owner |-> owner]

SourceFile(path, stem, parses, decls) ==
    [path |-> path, stem |-> stem, parses |-> parses, decls |-> decls]

\* nodes[key] = node on the dict of the scan: a new key goes last, an old key
\* keeps its place
DictSet(items, key, node) ==
    IF \E i \in 1..Len(items) : items[i].key = key
    THEN [i \in 1..Len(items) |->
             IF items[i].key = key THEN [key |-> key, node |-> node] ELSE items[i]]
    ELSE Append(items, [key |-> key, node |-> node])

\* one declaration of a file: the nodes and edges it adds (vision.py 60-101)
ScanDecl(acc, rel_path, d) ==
    CASE d.kind = "import" ->
           IF d.name # "" /\ d.name \notin StdModules
           THEN [acc EXCEPT !.edges = Append(@, DependencyEdge(rel_path, d.name, "import"))]
           ELSE acc
      [] d.kind = "class" ->
           LET class_node_id == rel_path \o "::" \o d.name
               inherits == [i \in 1..Len(d.bases) |->
                               DependencyEdge(class_node_id, d.bases[i], "inherits")]
           IN  [nodes |-> DictSet(acc.nodes, class_node_id,
                                  DependencyNode(d.name, "class", rel_path)),
                edges |-> Append(acc.edges,
                                 DependencyEdge(rel_path, class_node_id, "contains"))
                          \o inherits]
      [] OTHER ->
           LET func_node_id == rel_path \o "::" \o d.name
               edge == IF d.owner # ""
                       THEN DependencyEdge(rel_path \o "::" \o d.owner, func_node_id, "method")
                       ELSE DependencyEdge(rel_path, func_node_id, "contains")
           IN  [nodes |-> DictSet(acc.nodes, func_node_id,
                                  DependencyNode(d.name, "function", rel_path)),
                edges |-> Append(acc.edges, edge)]

RECURSIVE ScanDecls(_, _, _, _)
ScanDecls(acc, rel_path, decls, i) ==
    IF i > Len(decls) THEN acc
    ELSE ScanDecls(ScanDecl(acc, rel_path, decls[i]), rel_path, decls, i + 1)

\* one file: its file node, then its declarations unless ast.parse raises
ScanFile(acc, f) ==
    LET withFile == [acc EXCEPT !.nodes = DictSet(@, f.path,
                                                  DependencyNode(f.stem, "file", f.path))]
    IN  IF f.parses THEN ScanDecls(withFile, f.path, f.decls, 1) ELSE withFile

RECURSIVE ScanFiles(_, _, _)
ScanFiles(acc, files, i) ==
    IF i > Len(files) THEN acc
    ELSE ScanFiles(ScanFile(acc, files[i]), files, i + 1)

\* VisionArchitect.scan_project: (list(nodes.values()), edges)
scan_project(files) ==
    LET r == ScanFiles([nodes |-> <<>>, edges |-> <<>>], files, 1)
    IN  [nodes |-> [i \in 1..Len(r.nodes) |-> r.nodes[i].node], edges |-> r.edges]

\* networkx DiGraph: the attributes of each node, and of each (source, target)
EmptyGraph == [node |-> [n \in {} |-> EmptyMap], edge |-> [e \in {} |-> ""]]

has_node(G, n) == n \in DOMAIN G.node

\* G.add_node(n, **attrs): attributes of an existing node are updated
add_node(G, n, attrs) ==
    [G EXCEPT !.node = Put(@, n, IF has_node(G, n) THEN Update(G.node[n], attrs) ELSE attrs)]

\* G.add_edge(u, v, edge_type=t): a missing endpoint is added without
\* attributes; a DiGraph holds one edge per (u, v), the last edge_type wins
add_edge(G, u, v, t) ==
    LET G1 == IF has_node(G, u) THEN G ELSE add_node(G, u, EmptyMap)
        G2 == IF has_node(G1, v) THEN G1 ELSE add_node(G1, v, EmptyMap)
    IN  [G2 EXCEPT !.edge = Put(@, <<u, v>>, t)]

node_id(n) ==
    IF n.node_type \in {"class", "function"} THEN n.file_path \o "::" \o n.name
    ELSE n.file_path

\* one node record of build_graph (vision.py 109-112)
BuildNode(G, n) ==
    add_node(G, node_id(n),
             [node_type |-> n.node_type, name |-> n.name, file_path |-> n.file_path])

\* BuildEdge without the placeholder: the edge is added straight away
BuildEdgeNoPlaceholder(G, e) ==
    IF has_node(G, e.source) THEN add_edge(G, e.source, e.target, e.edge_type) ELSE G

\* one edge record of build_graph (vision.py 114-121): an edge whose source is
\* no node is skipped; a missing target becomes a module node first
BuildEdge(G, e) ==
    IF has_node(G, e.source) /\ has_node(G, e.target)
    THEN add_edge(G, e.source, e.target, e.edge_type)
    ELSE IF has_node(G, e.source)
         THEN LET G1 == IF ~has_node(G, e.target)
                        THEN add_node(G, e.target, [node_type |-> "module", name |-> e.target])
                        ELSE G
              IN  add_edge(G1, e.source, e.target, e.edge_type)
         ELSE G

RECURSIVE BuildNodes(_, _, _)
BuildNodes(G, nodes, i) ==
    IF i > Len(nodes) THEN G ELSE BuildNodes(BuildNode(G, nodes[i]), nodes, i + 1)

RECURSIVE BuildEdges(_, _, _)
BuildEdges(G, edges, i) ==
    IF i > Len(edges) THEN G ELSE BuildEdges(BuildEdge(G, edges[i]), edges, i + 1)

\* VisionArchitect.build_graph
build_graph(nodes, edges) == BuildEdges(BuildNodes(EmptyGraph, nodes, 1), edges, 1)

(***************************************************************************)
(* neuro_architect.py: NeuronState and its persisted form.                  *)
(***************************************************************************)
\* last_active = None
None == 0

\* NeuronState(): the defaults of the dataclass
NeuronState ==
    [last_active |-> None, activation_level |-> 0, error_rate |-> 0,
     active_variables |-> EmptyMap, logs |-> <<>>]

\* the instants of the clock; last_active holds one, or None
Instants == 1..(MaxEvents + 2)

\* datetime.isoformat and datetime.fromisoformat: the instant as text and back
isoformat(t) == ToString(t)
fromisoformat(s) == CHOOSE t \in Instants : ToString(t) = s

\* JSON null
Null == "null"

\* NeuronState.to_dict
to_dict(state) ==
    [last_active |-> IF state.last_active # None THEN isoformat(state.last_active) ELSE Null,
     activation_level |-> state.activation_level,
     error_rate |-> state.error_rate,
     active_variables |-> state.active_variables,
     logs |-> LastN(state.logs, LogTail)]

\* the brain file of a root: absent, or the JSON document save_state wrote.
\* json.dumps followed by json.loads gives back the strings, the doubles and
\* the string-keyed maps of a document unchanged, so the file is held as the
\* document.
NoFile == [exists |-> FALSE]
BrainFile(data) == [exists |-> TRUE, data |-> data]

\* the document save_state builds under the lock (neuro_architect.py 86-91)
BrainData(st, t) ==
    [timestamp |-> isoformat(t), states |-> [n \in DOMAIN st |-> to_dict(st[n])]]

\* LoadEntry with error_rate read from the key of activation_level
LoadEntrySwapped(state, state_dict) ==
    LET la == Get(state_dict, "last_active", Null)
    IN  [last_active |-> IF la # Null THEN fromisoformat(la) ELSE state.last_active,
         activation_level |-> Get(state_dict, "activation_level", 0),
         error_rate |-> Get(state_dict, "activation_level", 0),
         active_variables |-> Get(state_dict, "active_variables", EmptyMap),
         logs |-> Get(state_dict, "logs", <<>>)]

\* the body of load_state's loop for one entry of the file (108-115)
LoadEntry(state, state_dict) ==
    LET la == Get(state_dict, "last_active", Null)
    IN  [last_active |-> IF la # Null THEN fromisoformat(la) ELSE state.last_active,
         activation_level |-> Get(state_dict, "activation_level", 0),
         error_rate |-> Get(state_dict, "error_rate", 0),
         active_variables |-> Get(state_dict, "active_variables", EmptyMap),
         logs |-> Get(state_dict, "logs", <<>>)]

\* load_state without the test that the id is a key of the map
load_state_adding(st, f) ==
    IF ~f.exists THEN st
    ELSE LET saved_states == Get(f.data, "states", EmptyMap)
         IN  [n \in DOMAIN st \cup DOMAIN saved_states |->
                 IF n \in DOMAIN saved_states
                 THEN LoadEntry(IF n \in DOMAIN st THEN st[n] ELSE NeuronState,
                                saved_states[n])
                 ELSE st[n]]

\* NeuroArchitect.load_state on the state map: nothing without a file, else
\* the entries of the file whose id is a key of the map
load_state(st, f) ==
    IF ~f.exists THEN st
    ELSE LET saved_states == Get(f.data, "states", EmptyMap)
         IN  [n \in DOMAIN st |->
                 IF n \in DOMAIN saved_states
                 THEN LoadEntry(st[n], saved_states[n])
                 ELSE st[n]]

\* the tree under a root that cannot be read
Inaccessible == << [denied |-> TRUE] >>

Denied(files) == Len(files) > 0 /\ "denied" \in DOMAIN files[1]

\* InitStates over the scanned nodes only, not the placeholders of the graph
InitStatesScanned(G) ==
    [n \in {m \in DOMAIN G.node : "file_path" \in DOMAIN G.node[m]} |-> NeuronState]

\* the states of _initialize: one fresh NeuronState per node of the graph
InitStates(G) == [n \in DOMAIN G.node |-> NeuronState]

\* initialize without load_state
initialize_without_load(files, f) ==
    LET scanned == scan_project(files)
        G == build_graph(scanned.nodes, scanned.edges)
    IN  [graph |-> G, states |-> InitStates(G)]

\* NeuroArchitect.__init__ and _initialize on the tree and the brain file of
\* the root: scan, build, fresh states, load_state.  Under a root that cannot
\* be read, rglob finds nothing or scan_project raises and the except clause
\* (79-80) logs: either way the graph and the state map of __init__ stay
initialize(files, f) ==
    IF Denied(files) THEN [graph |-> EmptyGraph, states |-> EmptyMap]
    ELSE LET scanned == scan_project(files)
             G == build_graph(scanned.nodes, scanned.edges)
         IN  [graph |-> G, states |-> load_state(InitStates(G), f)]

\* ApplyEvent without min(1.0, ...)
ApplyEventUncapped(state, event_type, payload, t) ==
    LET s == [state EXCEPT !.last_active = t]
    IN  CASE event_type = "execution" ->
               [s EXCEPT !.activation_level = FloatAdd(@, ExecStep)]
          [] event_type = "error" ->
               [s EXCEPT !.error_rate = FloatAdd(@, ErrStep),
                         !.logs = Append(@, "ERROR: " \o Get(payload, "message", "Unknown"))]
          [] event_type = "variable_update" ->
               [s EXCEPT !.active_variables = Update(@, payload)]
          [] OTHER -> s

\* ApplyEvent that raises activation_level by the step of error_rate
ApplyEventSlowExecution(state, event_type, payload, t) ==
    LET s == [state EXCEPT !.last_active = t]
    IN  CASE event_type = "execution" ->
               [s EXCEPT !.activation_level = Min(One, FloatAdd(@, ErrStep))]
          [] event_type = "error" ->
               [s EXCEPT !.error_rate = Min(One, FloatAdd(@, ErrStep)),
                         !.logs = Append(@, "ERROR: " \o Get(payload, "message", "Unknown"))]
          [] event_type = "variable_update" ->
               [s EXCEPT !.active_variables = Update(@, payload)]
          [] OTHER -> s

\* ApplyEvent that counts an event of an unknown type as an execution
ApplyEventUnknownExecutes(state, event_type, payload, t) ==
    LET s == [state EXCEPT !.last_active = t]
    IN  CASE event_type = "error" ->
               [s EXCEPT !.error_rate = Min(One, FloatAdd(@, ErrStep)),
                         !.logs = Append(@, "ERROR: " \o Get(payload, "message", "Unknown"))]
          [] event_type = "variable_update" ->
               [s EXCEPT !.active_variables = Update(@, payload)]
          [] OTHER ->
               [s EXCEPT !.activation_level = Min(One, FloatAdd(@, ExecStep))]

\* the event of ingest_telemetry applied to the state of the node (127-136)
ApplyEvent(state, event_type, payload, t) ==
    LET s == [state EXCEPT !.last_active = t]
    IN  CASE event_type = "execution" ->
               [s EXCEPT !.activation_level = Min(One, FloatAdd(@, ExecStep))]
          [] event_type = "error" ->
               [s EXCEPT !.error_rate = Min(One, FloatAdd(@, ErrStep)),
                         !.logs = Append(@, "ERROR: " \o Get(payload, "message", "Unknown"))]
          [] event_type = "variable_update" ->
               [s EXCEPT !.active_variables = Update(@, payload)]
          [] OTHER -> s

\* ingest_telemetry that returns once it has created the node and its state
ingest_telemetry_returning(G, st, node_name, event_type, payload, t) ==
    IF node_name \notin DOMAIN st
    THEN [graph |-> IF ~has_node(G, node_name)
                    THEN add_node(G, node_name, [node_type |-> "dynamic"])
                    ELSE G,
          states |-> Put(st, node_name, NeuronState)]
    ELSE [graph |-> G,
          states |-> [st EXCEPT ![node_name] = ApplyEvent(@, event_type, payload, t)]]

\* the locked part of ingest_telemetry (121-136) on graph and states
ingest_telemetry(G, st, node_name, event_type, payload, t) ==
    LET G1 == IF node_name \notin DOMAIN st /\ ~has_node(G, node_name)
              THEN add_node(G, node_name, [node_type |-> "dynamic"])
              ELSE G
        st1 == IF node_name \notin DOMAIN st
               THEN Put(st, node_name, NeuronState)
               ELSE st
    IN  [graph |-> G1,
         states |-> [st1 EXCEPT ![node_name] = ApplyEvent(@, event_type, payload, t)]]

(***************************************************************************)
(* The inputs of the model: roots, source trees, telemetry.                 *)
(***************************************************************************)
Roots == {"r1", "r2"}

\* _instance = None: no NeuroArchitect is mounted
NoRoot == ""

\* a.py: import os; import requests; def f
TreeFlat ==
    << SourceFile("a.py", "a", TRUE,
                  << Import("os"), Import("requests"), FunctionDef("f", "") >>) >>

\* a.py: class A(Base) with the method g
TreeClass ==
    << SourceFile("a.py", "a", TRUE,
                  << ClassDef("A", << "Base" >>), FunctionDef("g", "A") >>) >>

\* a.py with a syntax error
TreeBroken == << SourceFile("a.py", "a", FALSE, << >>) >>

Trees == {TreeFlat, TreeClass, TreeBroken}

TelemetryIds == {"a.py::f"}

EventTypes == {"execution", "error", "variable_update", "heartbeat"}

Payloads == {EmptyMap, [message |-> "boom"]}

\* an earlier session on r1: n events of one type for one node, at instant 1
RECURSIVE Replay(_, _, _, _)
Replay(arch, node_name, event_type, n) ==
    IF n = 0 THEN arch
    ELSE Replay(ingest_telemetry(arch.graph, arch.states, node_name, event_type, EmptyMap, 1),
                node_name, event_type, n - 1)

\* the state map that session left: a.py::f after 5 execution and 10 error
\* events, activation_level 1.0 and error_rate 0.9999999999999999
PriorStates ==
    Replay(Replay(initialize(TreeFlat, NoFile), "a.py::f", "execution", 5),
           "a.py::f", "error", 10).states

\* and the brain file its last save wrote
PriorFile == BrainFile(BrainData(PriorStates, 1))

(***************************************************************************)
(* The state.                                                               *)
(***************************************************************************)
VARIABLES
    root,      \* _instance._project_root, NoRoot while _instance is None
    graph,     \* _instance._graph
    states,    \* _instance._states
    file,      \* per root, <root>/.ai/neuro_brain.json
    tree,      \* per root, the source tree under it
    now,       \* datetime.now()
    saved,     \* history: per root, the state map as it was at the last save_state
    lost,      \* history: per root, the ids whose persisted telemetry a rebuild
               \* found no node for, and whether a save has overwritten it since
    refreshed, \* history: the root of the refresh call that led to this state,
               \* NoRoot when another operation did
    in_nodes,  \* build_graph on its own: the node records given to it
    in_edges,  \* the edge records given to it
    built,     \* and the graph it returned
    lock,      \* _instance._lock: the thread that holds it, NoHolder when free
    threads,   \* per thread that calls ingest_telemetry: where it is in the
               \* call, the arguments, what it captured in save_state
    reader,    \* the thread that calls get_brain_state: where it is in the
               \* loop over the nodes, and what it has read
    held,      \* history: what the state map held at the instants some thread
               \* had the lock
    fed,       \* one NeuronState on its own: the events applied to it so far
    call       \* the last call of an operation that returns a result: the
               \* operation, its arguments, and what it returned

svars == << root, graph, states, file, tree, now, saved, lost, refreshed >>
bvars == << in_nodes, in_edges, built >>
cvars == << lock, threads, reader, held >>
xvars == << fed, call >>
vars == << svars, bvars, cvars, xvars >>

\* attrs.get("node_type", "unknown") of a node (neuro_architect.py 170)
NodeType(G, n) == Get(G.node[n], "node_type", "unknown")

\* what the service leaves alone
elsewhere == << bvars, cvars, xvars >>

\* the threads that call ingest_telemetry concurrently
Callers == {"t1", "t2"}

\* the threads of the process
Threads == Callers \cup {"t3"}

\* Lock(): nobody holds it
NoHolder == ""

\* a thread that has not called ingest_telemetry yet
IdleThread ==
    [pc |-> "idle", node_name |-> "", event_type |-> "", payload |-> EmptyMap,
     before |-> NeuronState, captured |-> EmptyMap]

\* a thread that has not called get_brain_state yet
IdleReader ==
    [pc |-> "idle", keys |-> {}, todo |-> {}, nodes_data |-> EmptyMap,
     links |-> EmptyGraph.edge, torn |-> {}]

\* a NeuronState no event was applied to
NotFed == [execution |-> 0, error |-> 0, state |-> NeuronState]

\* no operation was called
NoCall == [op |-> "none"]

\* no call is under way, none has returned
InitIdle ==
    /\ lock = NoHolder
    /\ threads = [c \in Threads |-> IdleThread]
    /\ reader = IdleReader
    /\ held = {}
    /\ fed = NotFed
    /\ call = NoCall

NotBuilt == [done |-> FALSE]
Built(G) == [done |-> TRUE, G |-> G]

\* the roots whose sources are edited while the service runs
EditedRoots == {"r1"}

InitService ==
    /\ root = NoRoot
    /\ graph = EmptyGraph
    /\ states = EmptyMap
    /\ \E f \in {NoFile, PriorFile} :
          /\ file = [r \in Roots |-> IF r = "r1" THEN f ELSE NoFile]
          /\ saved = [r \in Roots |-> IF r = "r1" /\ f.exists THEN PriorStates ELSE EmptyMap]
    /\ tree = [r \in Roots |-> IF r = "r1" THEN TreeBroken ELSE TreeClass]
    /\ now = 2
    /\ lost = [r \in Roots |-> EmptyMap]
    /\ refreshed = NoRoot

Init ==
    /\ InitService
    /\ InitIdle
    /\ in_nodes = << >>
    /\ in_edges = << >>
    /\ built = NotBuilt

(***************************************************************************)
(* The operations of the service.                                           *)
(***************************************************************************)
\* whether get_neuro_architect(r) constructs a NeuroArchitect: none is
\* mounted, or the root differs from the mounted one (245-252)
Constructs(r) == root = NoRoot \/ r # root

\* get_neuro_architect(project_root)
get_neuro_architect(r) ==
    IF Constructs(r)
    THEN LET arch == initialize(tree[r], file[r])
         IN  [root |-> r, graph |-> arch.graph, states |-> arch.states]
    ELSE [root |-> root, graph |-> graph, states |-> states]

\* the ids whose entry in the brain file of r carries telemetry and for which
\* a graph has no node; FALSE: no save has overwritten the entry yet
Orphans(r, G) ==
    IF ~file[r].exists THEN EmptyMap
    ELSE LET ss == Get(file[r].data, "states", EmptyMap)
         IN  [n \in {m \in DOMAIN ss : ~has_node(G, m) /\ ss[m] # to_dict(NeuronState)} |-> FALSE]

\* history of a rebuild of r into G: the orphans are lost, what is restored
\* is lost no longer
Loses(r, G, st) ==
    LET kept == [n \in {m \in DOMAIN lost[r] : m \notin DOMAIN st \/ st[m] = NeuronState}
                    |-> lost[r][n]]
    IN  [lost EXCEPT ![r] = Update(kept, Orphans(r, G))]

\* refresh_vision_logic(target_project)
Refresh(r) ==
    LET inst == get_neuro_architect(r)
    IN  /\ root' = inst.root
        /\ graph' = inst.graph
        /\ states' = inst.states
        /\ lost' = IF Constructs(r) THEN Loses(r, inst.graph, inst.states) ELSE lost
        /\ refreshed' = r
        /\ UNCHANGED << file, tree, now, saved, elsewhere >>

\* the process ends and starts again: _instance is None, the files stay
Restart ==
    /\ root # NoRoot
    /\ root' = NoRoot
    /\ graph' = EmptyGraph
    /\ states' = EmptyMap
    /\ refreshed' = NoRoot
    /\ UNCHANGED << file, tree, now, saved, lost, elsewhere >>

\* save_state that keeps the entries of the file whose id the map lacks
save_state_merging(st, t) ==
    LET old == IF file[root].exists THEN Get(file[root].data, "states", EmptyMap)
               ELSE EmptyMap
        new == BrainData(st, t)
    IN  [file EXCEPT ![root] = BrainFile([new EXCEPT !.states = Update(old, @)])]

\* NeuroArchitect.save_state: the brain file of the mounted root is overwritten
save_state(st, t) == [file EXCEPT ![root] = BrainFile(BrainData(st, t))]

\* history of a save of the state map st: every orphan entry is overwritten;
\* an id that holds telemetry again is lost no longer
Saved(st) ==
    /\ saved' = [saved EXCEPT ![root] = st]
    /\ lost' = [lost EXCEPT ![root] =
                    [n \in {m \in DOMAIN @ : m \notin DOMAIN st \/ st[m] = NeuronState} |-> TRUE]]

SaveState ==
    /\ root # NoRoot
    /\ file' = save_state(states, now)
    /\ Saved(states)
    /\ refreshed' = NoRoot
    /\ UNCHANGED << root, graph, states, tree, now, elsewhere >>

\* NeuroArchitect.load_state
LoadState ==
    /\ root # NoRoot
    /\ states' = load_state(states, file[root])
    /\ refreshed' = NoRoot
    /\ UNCHANGED << root, graph, file, tree, now, saved, lost, elsewhere >>

\* NeuroArchitect.ingest_telemetry: the event under the lock, then save_state
IngestTelemetry(node_name, event_type, payload) ==
    /\ root # NoRoot
    /\ now < MaxEvents + 2
    /\ LET arch == ingest_telemetry(graph, states, node_name, event_type, payload, now)
       IN  /\ graph' = arch.graph
           /\ states' = arch.states
           /\ file' = save_state(arch.states, now)
           /\ Saved(arch.states)
    /\ now' = now + 1
    /\ refreshed' = NoRoot
    /\ UNCHANGED << root, tree, elsewhere >>

\* the sources under a root are edited
EditTree(r, files) ==
    /\ files # tree[r]
    /\ tree' = [tree EXCEPT ![r] = files]
    /\ refreshed' = NoRoot
    /\ UNCHANGED << root, graph, states, file, now, saved, lost, elsewhere >>

Next ==
    \/ \E r \in Roots : Refresh(r)
    \/ Restart
    \/ SaveState
    \/ LoadState
    \/ \E n \in TelemetryIds, ev \in EventTypes, p \in Payloads : IngestTelemetry(n, ev, p)
    \/ \E r \in EditedRoots, files \in Trees : EditTree(r, files)

Spec == Init /\ [][Next]_vars

(***************************************************************************)
(* build_graph on its own, on every list of node and edge records within    *)
(* the bounds.                                                              *)
(***************************************************************************)
NodeRecords ==
    { DependencyNode("a", "file", "a.py"),
      DependencyNode("f", "function", "a.py"),
      DependencyNode("b", "file", "b.py") }

\* "requests" is the id of no node record
EdgeEnds == {"a.py", "a.py::f", "requests"}

EdgeKinds == {"contains", "import"}

EdgeRecords == {DependencyEdge(u, v, k) : u \in EdgeEnds, v \in EdgeEnds, k \in EdgeKinds}

SeqsUpTo(S, n) == UNION {[1..k -> S] : k \in 0..n}

InitBuild ==
    /\ root = NoRoot
    /\ graph = EmptyGraph
    /\ states = EmptyMap
    /\ file = [r \in Roots |-> NoFile]
    /\ saved = [r \in Roots |-> EmptyMap]
    /\ tree = [r \in Roots |-> TreeBroken]
    /\ now = 2
    /\ lost = [r \in Roots |-> EmptyMap]
    /\ refreshed = NoRoot
    /\ in_nodes \in SeqsUpTo(NodeRecords, MaxRecords)
    /\ in_edges \in SeqsUpTo(EdgeRecords, MaxRecords)
    /\ built = NotBuilt
    /\ InitIdle

BuildGraph ==
    /\ ~built.done
    /\ built' = Built(build_graph(in_nodes, in_edges))
    /\ UNCHANGED << svars, cvars, xvars, in_nodes, in_edges >>

NextBuild == BuildGraph

SpecBuild == InitBuild /\ [][NextBuild]_vars

\* the ids of the node records given to build_graph
RecordIds == {node_id(in_nodes[i]) : i \in 1..Len(in_nodes)}

\* C6: both endpoints of every edge of the built graph are nodes of it; the
\* target of an edge record that is the id of no node record is a node of
\* kind module, and the edge is in the graph.
EdgesNeverDangle ==
    built.done =>
        /\ \A e \in DOMAIN built.G.edge :
              /\ has_node(built.G, e[1]) /\ has_node(built.G, e[2])
              /\ e[2] \notin RecordIds =>
                    built.G.node[e[2]] = [node_type |-> "module", name |-> e[2]]
        /\ \A i \in 1..Len(in_edges) :
              in_edges[i].source \in RecordIds =>
                  /\ << in_edges[i].source, in_edges[i].target >> \in DOMAIN built.G.edge
                  /\ has_node(built.G, in_edges[i].target)

\* a built graph with an edge to a placeholder, from records with an edge
\* whose source is no node
EdgesNeverDangle_Witness ==
    /\ built.done
    /\ \E e \in DOMAIN built.G.edge :
          e[2] \notin RecordIds /\ NodeType(built.G, e[2]) = "module"
    /\ \E i \in 1..Len(in_edges) : ~has_node(built.G, in_edges[i].source)

(***************************************************************************)
(* Properties of the service.                                               *)
(***************************************************************************)
\* a rebuild: a refresh that constructs the NeuroArchitect of r
Rebuild(r) == Refresh(r) /\ Constructs(r)

\* the entry the brain file of r holds for n, if any
Persisted(r, n) == file[r].exists /\ n \in DOMAIN Get(file[r].data, "states", EmptyMap)
Entry(r, n) == file[r].data.states[n]

\* C1: every node of the graph, the nodes ingestion created and the module
\* placeholders included, is a key of the state map and holds one NeuronState.
EveryNodeHasState ==
    \A n \in DOMAIN graph.node :
        n \in DOMAIN states /\ DOMAIN states[n] = DOMAIN NeuronState

\* a graph with a dynamic node and a module placeholder, each with its state
EveryNodeHasState_Witness ==
    \E n, m \in DOMAIN graph.node :
        /\ NodeType(graph, n) = "dynamic"
        /\ NodeType(graph, m) = "module"
        /\ {n, m} \subseteq DOMAIN states

\* C2: activation_level and error_rate of every node stay within [0, 1].
LevelsInRange ==
    \A n \in DOMAIN states :
        /\ 0 <= states[n].activation_level /\ states[n].activation_level <= One
        /\ 0 <= states[n].error_rate /\ states[n].error_rate <= One

\* a node whose error_rate an error event of this run has capped at 1.0 (the
\* earlier session left 0.9999999999999999) with activation_level at 1.0
LevelsInRange_Witness ==
    \E n \in DOMAIN states :
        /\ states[n].error_rate = One
        /\ states[n].activation_level = One
        /\ states[n].last_active >= 2

\* what a load restores of a state as it was saved
Restored(s, was) ==
    /\ s.activation_level = was.activation_level
    /\ s.error_rate = was.error_rate
    /\ s.active_variables = was.active_variables
    /\ s.logs = LastN(was.logs, LogTail)

\* C3: a load_state, alone or as the last step of a rebuild, leaves every id
\* that was in the state map at the last save of the root with the
\* activation_level, error_rate, active_variables and log tail it had then.
SaveThenLoadRestores ==
    [][(LoadState \/ \E r \in Roots : Rebuild(r))
          => \A n \in DOMAIN states' \cap DOMAIN saved[root'] :
                 Restored(states'[n], saved[root'][n])]_vars

\* a state restored from a save of more than five log entries
SaveThenLoadRestores_Witness ==
    /\ root # NoRoot
    /\ \E n \in DOMAIN states \cap DOMAIN saved[root] :
          /\ Len(saved[root][n].logs) > LogTail
          /\ states[n].error_rate # 0
          /\ Restored(states[n], saved[root][n])

\* C4: after every refresh(r), one for the mounted root included, the service
\* is the one a reconstruction gives: the tree of r rescanned, fresh states,
\* the persisted overlay loaded.
RefreshReconstructs ==
    refreshed # NoRoot =>
        /\ root = refreshed
        /\ graph = initialize(tree[refreshed], file[refreshed]).graph
        /\ states = initialize(tree[refreshed], file[refreshed]).states

\* C7: an ingestion for an id the graph lacks adds a dynamic node with that
\* id and a fresh NeuronState, applies the event to that state, and adds or
\* changes no other node, edge or state.
IngestAbsentCreatesDynamic ==
    [][\A n \in TelemetryIds, ev \in EventTypes, p \in Payloads :
          (IngestTelemetry(n, ev, p) /\ ~has_node(graph, n)) =>
              /\ DOMAIN graph'.node = DOMAIN graph.node \cup {n}
              /\ graph'.node[n] = [node_type |-> "dynamic"]
              /\ \A m \in DOMAIN graph.node : graph'.node[m] = graph.node[m]
              /\ graph'.edge = graph.edge
              /\ DOMAIN states' = DOMAIN states \cup {n}
              /\ \A m \in DOMAIN states : states'[m] = states[m]
              /\ states'[n].last_active = now
              /\ states'[n].activation_level = (IF ev = "execution" THEN ExecStep ELSE 0)
              /\ states'[n].error_rate = (IF ev = "error" THEN ErrStep ELSE 0)
              /\ states'[n].logs =
                    (IF ev # "error" THEN << >>
                     ELSE IF "message" \in DOMAIN p THEN << "ERROR: " \o p.message >>
                     ELSE << "ERROR: Unknown" >>)
              /\ states'[n].active_variables =
                    (IF ev = "variable_update" THEN p ELSE EmptyMap)]_vars

\* a dynamic node whose fresh state took an execution event
IngestAbsentCreatesDynamic_Witness ==
    \E n \in DOMAIN graph.node :
        /\ NodeType(graph, n) = "dynamic"
        /\ n \in DOMAIN states
        /\ states[n].activation_level = ExecStep
        /\ states[n].last_active >= 2

\* C8 as the spec states it: after a rebuild every node has a NeuronState with
\* activation_level 0 and error_rate 0.
RebuildZeroes ==
    [][\A r \in Roots : Rebuild(r) =>
          \A n \in DOMAIN graph'.node :
              /\ n \in DOMAIN states'
              /\ states'[n].activation_level = 0
              /\ states'[n].error_rate = 0]_vars

\* C8 amended: after a rebuild every node has a NeuronState, with
\* activation_level 0 and error_rate 0 unless the brain file of the root
\* holds an entry for its id, and then with the values of that entry.
RebuildZeroesUnlessPersisted ==
    [][\A r \in Roots : Rebuild(r) =>
          \A n \in DOMAIN graph'.node :
              /\ n \in DOMAIN states'
              /\ IF Persisted(r, n)
                 THEN /\ states'[n].activation_level = Entry(r, n).activation_level
                      /\ states'[n].error_rate = Entry(r, n).error_rate
                 ELSE /\ states'[n].activation_level = 0
                      /\ states'[n].error_rate = 0]_vars

\* just after a refresh: a node with its persisted level beside one at 0
RebuildZeroesUnlessPersisted_Witness ==
    /\ refreshed # NoRoot
    /\ root = refreshed
    /\ \E n, m \in DOMAIN states :
          /\ Persisted(root, n) /\ states[n].activation_level # 0
          /\ ~Persisted(root, m) /\ states[m].activation_level = 0

\* C9: load_state, alone or in a rebuild, adds no state and no node: the ids
\* that only the file holds are dropped, and the state of an id the file
\* does not mention is left as it was (fresh, in a rebuild).
LoadUpdatesKnownIdsOnly ==
    [][/\ LoadState =>
            /\ graph' = graph
            /\ DOMAIN states' = DOMAIN states
            /\ \A n \in DOMAIN states : ~Persisted(root, n) => states'[n] = states[n]
       /\ \A r \in Roots : Rebuild(r) =>
            /\ DOMAIN states' = DOMAIN graph'.node
            /\ \A n \in DOMAIN states' : ~Persisted(r, n) => states'[n] = NeuronState]_vars

\* a file with an id the state map lacks, a fresh state the file does not
\* mention, and a state that holds what the file holds for it
LoadUpdatesKnownIdsOnly_Witness ==
    /\ root # NoRoot
    /\ file[root].exists
    /\ \E n \in DOMAIN file[root].data.states : n \notin DOMAIN states
    /\ \E n \in DOMAIN states : ~Persisted(root, n) /\ states[n] = NeuronState
    /\ \E n \in DOMAIN states :
          /\ Persisted(root, n)
          /\ states[n] # NeuronState
          /\ to_dict(states[n]) = Entry(root, n)

\* C10 as the spec states it: once a rebuild of a root found no node for an
\* id with persisted telemetry, no later rebuild of the root in which the id
\* is a node again restores it: the state of the id is fresh.
LostOverlayNeverRestored ==
    [][\A r \in Roots : Rebuild(r) =>
          \A n \in DOMAIN lost[r] :
              has_node(graph', n) => states'[n] = NeuronState]_vars

\* C10 amended: the telemetry is lost for good once a save has overwritten
\* the brain file (every ingestion saves); until then the file still holds it
\* and a rebuild in which the id is a node again restores it.
LostOverlayRestoredUntilSave ==
    [][\A r \in Roots : Rebuild(r) =>
          \A n \in DOMAIN lost[r] :
              has_node(graph', n) =>
                  IF lost[r][n]
                  THEN states'[n] = NeuronState
                  ELSE /\ Persisted(r, n)
                       /\ states'[n] # NeuronState
                       /\ to_dict(states'[n]) = Entry(r, n)]_vars

\* just after a refresh: a scanned node whose telemetry was lost and
\* overwritten, with a fresh state
LostOverlayRestoredUntilSave_Witness ==
    /\ refreshed # NoRoot
    /\ root = refreshed
    /\ \E n \in DOMAIN lost[root] :
          /\ lost[root][n]
          /\ has_node(graph, n)
          /\ NodeType(graph, n) = "function"
          /\ states[n] = NeuronState

(***************************************************************************)
(* The threads of the service: ingest_telemetry and get_brain_state called  *)
(* concurrently on one mounted instance, statement by statement.  What a    *)
(* thread does between two statements that read or write _graph, _states or *)
(* the lock is one step.                                                    *)
(***************************************************************************)
\* the instance is mounted on r1, whose tree has a.py::f or has not
InitConc ==
    /\ root = "r1"
    /\ \E files \in {TreeBroken, TreeFlat} :
          LET arch == initialize(files, NoFile)
          IN  /\ tree = [r \in Roots |-> IF r = "r1" THEN files ELSE TreeClass]
              /\ graph = arch.graph
              /\ states = arch.states
    /\ file = [r \in Roots |-> NoFile]
    /\ saved = [r \in Roots |-> EmptyMap]
    /\ now = 2
    /\ lost = [r \in Roots |-> EmptyMap]
    /\ refreshed = "r1"
    /\ InitIdle
    /\ in_nodes = << >>
    /\ in_edges = << >>
    /\ built = NotBuilt

\* the fields of the states of a map that save_state writes next to
\* last_active
Fields(st) ==
    [n \in DOMAIN st |->
        [activation_level |-> to_dict(st[n]).activation_level,
         error_rate |-> to_dict(st[n]).error_rate,
         active_variables |-> to_dict(st[n]).active_variables,
         logs |-> to_dict(st[n]).logs]]

\* the thread c moves to pc
Goto(c, pc) == [threads EXCEPT ![c].pc = pc]

\* ingest_telemetry is called: the lock is taken (121) and a node the state
\* map and the graph lack is added to the graph (122-124)
Enter(c, node_name, event_type, payload) ==
    /\ root # NoRoot
    /\ threads[c].pc = "idle"
    /\ lock = NoHolder
    /\ lock' = c
    /\ graph' = IF node_name \notin DOMAIN states /\ ~has_node(graph, node_name)
                THEN add_node(graph, node_name, [node_type |-> "dynamic"])
                ELSE graph
    /\ threads' = [threads EXCEPT ![c] =
                      [pc |-> "create", node_name |-> node_name,
                       event_type |-> event_type, payload |-> payload,
                       before |-> Get(states, node_name, NeuronState),
                       captured |-> EmptyMap]]
    /\ refreshed' = NoRoot
    /\ held' = held \cup {Fields(states)}
    /\ UNCHANGED << root, states, file, tree, now, saved, lost, reader, bvars, xvars >>

\* self._states[node_name] = NeuronState() for a node without state (125)
CreateState(c) ==
    /\ threads[c].pc = "create"
    /\ states' = IF threads[c].node_name \notin DOMAIN states
                 THEN Put(states, threads[c].node_name, NeuronState)
                 ELSE states
    /\ threads' = Goto(c, "stamp")
    /\ held' = held \cup {Fields(states')}
    /\ UNCHANGED << root, graph, file, tree, now, saved, lost, refreshed, lock, reader, bvars, xvars >>

\* state.last_active = datetime.now() (127-128)
Stamp(c) ==
    /\ threads[c].pc = "stamp"
    /\ states' = [states EXCEPT ![threads[c].node_name].last_active = now]
    /\ threads' = Goto(c, "event")
    /\ UNCHANGED << root, graph, file, tree, now, saved, lost, refreshed, lock, reader, held, bvars, xvars >>

\* the first assignment of the branch of the event type (130-136); the lock
\* is released after it unless logs.append is still to come
Event(c) ==
    /\ threads[c].pc = "event"
    /\ LET t == threads[c]
           n == t.node_name
       IN  CASE t.event_type = "execution" ->
                  /\ states' = [states EXCEPT ![n].activation_level =
                                                  Min(One, FloatAdd(@, ExecStep))]
                  /\ threads' = Goto(c, "save")
                  /\ lock' = NoHolder
             [] t.event_type = "error" ->
                  /\ states' = [states EXCEPT ![n].error_rate =
                                                  Min(One, FloatAdd(@, ErrStep))]
                  /\ threads' = Goto(c, "log")
                  /\ lock' = lock
             [] t.event_type = "variable_update" ->
                  /\ states' = [states EXCEPT ![n].active_variables = Update(@, t.payload)]
                  /\ threads' = Goto(c, "save")
                  /\ lock' = NoHolder
             [] OTHER ->
                  /\ states' = states
                  /\ threads' = Goto(c, "save")
                  /\ lock' = NoHolder
    /\ held' = held \cup {Fields(states')}
    /\ UNCHANGED << root, graph, file, tree, now, saved, lost, refreshed, reader, bvars, xvars >>

\* state.logs.append(...) of an error event (134), then the lock is released
Log(c) ==
    /\ threads[c].pc = "log"
    /\ states' = [states EXCEPT ![threads[c].node_name].logs =
                     Append(@, "ERROR: " \o Get(threads[c].payload, "message", "Unknown"))]
    /\ threads' = Goto(c, "save")
    /\ lock' = NoHolder
    /\ held' = held \cup {Fields(states')}
    /\ UNCHANGED << root, graph, file, tree, now, saved, lost, refreshed, reader, bvars, xvars >>

\* save_state, under the lock: the state map is captured into data (85-91)
Capture(c) ==
    /\ threads[c].pc = "save"
    /\ lock = NoHolder
    /\ threads' = [threads EXCEPT ![c].pc = "write", ![c].captured = states]
    /\ UNCHANGED << svars, lock, reader, held, bvars, xvars >>

\* json.dumps(data) of the document captured from st, while the state map is
\* cur: to_dict hands out state.active_variables itself (34), which
\* dict.update changes in place (136); logs[-5:] is a copy (35)
Serialise(st, cur, t) ==
    LET data == BrainData(st, t)
    IN  [data EXCEPT !.states =
            [n \in DOMAIN @ |-> [@[n] EXCEPT !.active_variables = cur[n].active_variables]]]

\* save_state, outside the lock: the file is overwritten (93-94)
Write(c) ==
    /\ threads[c].pc = "write"
    /\ file' = [file EXCEPT ![root] = BrainFile(Serialise(threads[c].captured, states, now))]
    /\ Saved(threads[c].captured)
    /\ threads' = Goto(c, "done")
    /\ UNCHANGED << root, graph, states, tree, now, refreshed, lock, reader, held, bvars, xvars >>

\* save_state, outside the lock: dict.update (136) has put a new key into an
\* active_variables that json.dumps is iterating over, the iteration raises
\* RuntimeError, the except clause logs it (96-97) and nothing is written
WriteRaises(c) ==
    /\ threads[c].pc = "write"
    /\ \E n \in DOMAIN threads[c].captured :
          DOMAIN states[n].active_variables # DOMAIN threads[c].captured[n].active_variables
    /\ threads' = Goto(c, "done")
    /\ UNCHANGED << svars, lock, reader, held, bvars, xvars >>

\* what is torn in a read of the state of node n now: the graph has the node
\* and the map has no state for it, or the state is neither the one before
\* the event of the thread that holds the lock nor the one after it
Torn(n) ==
    (IF n \notin DOMAIN states THEN {"no_state"} ELSE {})
    \cup
    (IF \E c \in Callers :
            /\ lock = c
            /\ threads[c].node_name = n
            /\ n \in DOMAIN states
            /\ states[n] # threads[c].before
            /\ states[n] # ApplyEvent(threads[c].before, threads[c].event_type,
                                      threads[c].payload, now)
     THEN {"partial"} ELSE {})

\* get_brain_state is called; it takes no lock.  The loop over
\* self._graph.nodes(data=True) starts (165)
ReadStart ==
    /\ root # NoRoot
    /\ reader.pc = "idle"
    /\ reader' = [reader EXCEPT !.pc = "nodes",
                                !.keys = DOMAIN graph.node,
                                !.todo = DOMAIN graph.node]
    /\ UNCHANGED << svars, lock, threads, held, bvars, xvars >>

\* one round of the loop: self._states.get(n, NeuronState()).to_dict()
\* (166-171)
ReadNode(n) ==
    /\ reader.pc = "nodes"
    /\ DOMAIN graph.node = reader.keys
    /\ n \in reader.todo
    /\ reader' = [reader EXCEPT !.todo = @ \ {n},
                                !.nodes_data = Put(@, n, to_dict(Get(states, n, NeuronState))),
                                !.torn = @ \cup Torn(n)]
    /\ UNCHANGED << svars, lock, threads, held, bvars, xvars >>

\* the loop goes on after a node was added to the graph: the iterator of the
\* dict of nodes raises RuntimeError, which get_brain_state does not catch
ReadRaise ==
    /\ reader.pc = "nodes"
    /\ DOMAIN graph.node # reader.keys
    /\ reader' = [reader EXCEPT !.pc = "raised"]
    /\ UNCHANGED << svars, lock, threads, held, bvars, xvars >>

\* the loop is over: the edges are read and the snapshot is returned (177-188)
ReadDone ==
    /\ reader.pc = "nodes"
    /\ DOMAIN graph.node = reader.keys
    /\ reader.todo = {}
    /\ reader' = [reader EXCEPT !.pc = "done", !.links = graph.edge]
    /\ UNCHANGED << svars, lock, threads, held, bvars, xvars >>

NextConc ==
    \/ \E c \in Callers, n \in TelemetryIds, ev \in EventTypes, p \in Payloads :
          Enter(c, n, ev, p)
    \/ \E c \in Callers : CreateState(c)
    \/ \E c \in Callers : Stamp(c)
    \/ \E c \in Callers : Event(c)
    \/ \E c \in Callers : Log(c)
    \/ \E c \in Callers : Capture(c)
    \/ \E c \in Callers : Write(c)
    \/ \E c \in Callers : WriteRaises(c)
    \/ ReadStart
    \/ \E n \in reader.todo : ReadNode(n)
    \/ ReadRaise
    \/ ReadDone

SpecConc == InitConc /\ [][NextConc]_vars

\* C5: a snapshot that runs concurrently with an ingestion never observes a
\* torn state: every node it reads has its NeuronState in the map, and the
\* state it reads for a node is never part-way through the update of one
\* event.  (get_brain_state takes no lock, so the invariant does not hold.)
SnapshotNeverTorn == reader.torn = {}

(***************************************************************************)
(* Properties of the events of ingest_telemetry.                            *)
(***************************************************************************)
\* C11: the log of every node holds at most 5 entries.  (state.logs is
\* appended to and never cut: only to_dict cuts what it hands out, so the
\* invariant does not hold of the state map.)
LogTailBounded == \A n \in DOMAIN states : Len(states[n].logs) <= LogTail

\* the event types with a branch in ingest_telemetry (130-135)
KnownEvents == {"execution", "error", "variable_update"}

\* C13: an ingestion of an event type that is none of execution, error,
\* variable_update sets last_active of the node to the current time, leaves
\* its activation_level, error_rate, active_variables and logs as they were
\* (those of a fresh NeuronState for a node created by the call), and leaves
\* the state of every other node unchanged.
UnknownEventOnlyStamps ==
    [][\A n \in TelemetryIds, ev \in EventTypes \ KnownEvents, p \in Payloads :
          IngestTelemetry(n, ev, p) =>
             LET was == Get(states, n, NeuronState)
             IN  /\ DOMAIN states' = DOMAIN states \cup {n}
                 /\ states'[n] = [was EXCEPT !.last_active = now]
                 /\ \A m \in DOMAIN states \ {n} : states'[m] = states[m]]_vars

\* a node restored from the file of an earlier session, with both levels
\* raised and five logs, was stamped at the current time and is otherwise as
\* the file had it
UnknownEventOnlyStamps_Witness ==
    /\ root = "r1"
    /\ "a.py::f" \in DOMAIN states
    /\ states["a.py::f"] =
          [LoadEntry(NeuronState, PriorFile.data.states["a.py::f"])
              EXCEPT !.last_active = 2]
    /\ now = 3

(***************************************************************************)
(* One fresh NeuronState fed execution and error events, in any order, up   *)
(* to MaxRun of each.                                                       *)
(***************************************************************************)
\* no instance is mounted, no file exists
Unmounted ==
    /\ root = NoRoot
    /\ graph = EmptyGraph
    /\ states = EmptyMap
    /\ file = [r \in Roots |-> NoFile]
    /\ saved = [r \in Roots |-> EmptyMap]
    /\ tree = [r \in Roots |-> TreeBroken]
    /\ now = 2
    /\ lost = [r \in Roots |-> EmptyMap]
    /\ refreshed = NoRoot
    /\ in_nodes = << >>
    /\ in_edges = << >>
    /\ built = NotBuilt
    /\ lock = NoHolder
    /\ threads = [c \in Threads |-> IdleThread]
    /\ reader = IdleReader
    /\ held = {}

InitEvents ==
    /\ Unmounted
    /\ fed = NotFed
    /\ call = NoCall

\* one more event of the type is applied to the state
Feed(event_type) ==
    /\ fed[event_type] < MaxRun
    /\ fed' = [fed EXCEPT ![event_type] = @ + 1,
                          !.state = ApplyEvent(@, event_type, EmptyMap, now)]
    /\ UNCHANGED << svars, bvars, cvars, call >>

NextEvents == Feed("execution") \/ Feed("error")

SpecEvents == InitEvents /\ [][NextEvents]_vars

\* the distance of two levels
Dist(a, b) == IF a < b THEN b - a ELSE a - b

\* C12 as stated: after n execution events the activation_level is exactly
\* min(1.0, 0.2n), after n error events the error_rate is exactly
\* min(1.0, 0.1n).  (The sums are sums of doubles: three execution events
\* leave 0.6000000000000001 and ten error events 0.9999999999999999.)
LevelsAreClosedForm ==
    /\ fed.state.activation_level = Min(One, ExecStep * fed.execution)
    /\ fed.state.error_rate = Min(One, ErrStep * fed.error)

\* C12, amended: after n execution events the activation_level is
\* min(1.0, 0.2n) up to the rounding of the sums, never above 1.0 and exactly
\* 1.0 from the 5th event on; after n error events the error_rate is
\* min(1.0, 0.1n) up to the rounding of the sums, never above 1.0 and exactly
\* 1.0 from the 11th event on.  Ten execution events and twenty error events
\* leave exactly 1.0.
LevelsSaturate ==
    /\ Dist(fed.state.activation_level, Min(One, ExecStep * fed.execution)) <= Rounding
    /\ fed.state.activation_level <= One
    /\ fed.execution >= 5 => fed.state.activation_level = One
    /\ Dist(fed.state.error_rate, Min(One, ErrStep * fed.error)) <= Rounding
    /\ fed.state.error_rate <= One
    /\ fed.error >= 11 => fed.state.error_rate = One

\* ten execution events and twenty error events were applied
LevelsSaturate_Witness ==
    /\ fed.execution = 10
    /\ fed.error = 20
    /\ fed.state.activation_level = One
    /\ fed.state.error_rate = One

(***************************************************************************)
(* analyze_impact on its own, on every graph within the bounds.  A list     *)
(* without duplicates whose order the graph of the model does not fix       *)
(* (list(predecessors), the list made of a set) is held as a set.           *)
(***************************************************************************)
\* ImpactPrediction(target_node, direct_impact, ripple_effect, risk_score)
ImpactPrediction(target_node, direct_impact, ripple_effect, risk_score) ==
    [target_node |-> target_node, direct_impact |-> direct_impact,
     ripple_effect |-> ripple_effect, risk_score |-> risk_score]

\* predecessors that are the successors
predecessors_reversed(G, n) == {u \in DOMAIN G.node : <<n, u>> \in DOMAIN G.edge}

\* G.predecessors(n)
predecessors(G, n) == {u \in DOMAIN G.node : <<u, n>> \in DOMAIN G.edge}

\* the nodes from which a node of S is reached, S included
RECURSIVE Backwards(_, _)
Backwards(G, S) ==
    LET S1 == S \cup UNION {predecessors(G, m) : m \in S}
    IN  IF S1 = S THEN S ELSE Backwards(G, S1)

\* nx.ancestors(G, n): the nodes with a path to n, n itself left out
ancestors(G, n) == Backwards(G, {n}) \ {n}

\* the strings p for which p + target is a node id, over the ids and the
\* targets of the model
Affixes == {"", "a.py::", "a.py::Bas", "Bas", "a.", "b.", "a.py"}

\* n.endswith(target)
EndsWith(n, target) == \E p \in Affixes : p \o target = n

\* the node ids that end with the target (143)
Matches(G, target) == {n \in DOMAIN G.node : EndsWith(n, target)}

\* Resolve that looks for a suffix match before the exact match
ResolveSuffixFirst(G, target) ==
    IF Matches(G, target) # {} THEN Matches(G, target)
    ELSE IF has_node(G, target) THEN {target} ELSE {}

\* the ids the target may resolve to (142-146): itself when it is a node,
\* else matches[0], which is any of the matches since the graph of the model
\* does not hold the order of insertion of its nodes; none when unresolved
Resolve(G, target) ==
    IF has_node(G, target) THEN {target} ELSE Matches(G, target)

\* the sets of k elements of S
RECURSIVE KSubsets(_, _)
KSubsets(S, k) ==
    IF k = 0 THEN {{}}
    ELSE UNION {{T \cup {x} : T \in KSubsets(S \ {x}, k - 1)} : x \in S}

\* the lists l[:n] of the lists l made of the set S, in whatever order the
\* set is iterated
FirstN(S, n) ==
    IF Cardinality(S) <= n THEN {S}
    ELSE {S \ D : D \in KSubsets(S, Cardinality(S) - n)}

\* Impact that keeps the target and the direct dependents in the ripple
ImpactUnfiltered(G, t) ==
    LET direct_dependents == predecessors(G, t)
        ripple_list == UNION {ancestors(G, bid) : bid \in direct_dependents}
        risk_score == Min(RiskCap, Cardinality(direct_dependents) * DirectWeight
                                    + Cardinality(ripple_list) * RippleWeight)
    IN  {ImpactPrediction(t, direct_dependents, r, risk_score) :
            r \in FirstN(ripple_list, RippleCap)}

\* analyze_impact from the resolved target t on (150-161): the predictions
\* it may return
Impact(G, t) ==
    LET direct_dependents == predecessors(G, t)
        ripple_dependents == UNION {ancestors(G, bid) : bid \in direct_dependents}
        ripple_list == {n \in ripple_dependents : n \notin direct_dependents /\ n # t}
        risk_score == Min(RiskCap, Cardinality(direct_dependents) * DirectWeight
                                    + Cardinality(ripple_list) * RippleWeight)
    IN  {ImpactPrediction(t, direct_dependents, r, risk_score) :
            r \in FirstN(ripple_list, RippleCap)}

\* NeuroArchitect.analyze_impact: the predictions it may return
analyze_impact(G, target_node) ==
    IF Resolve(G, target_node) = {}
    THEN {ImpactPrediction(target_node, {}, {}, 0)}
    ELSE UNION {Impact(G, t) : t \in Resolve(G, target_node)}

\* the ids of the nodes: a file, a class of it, the placeholder of a base
\* class of the same name, another file
ImpactIds == {"a.py", "a.py::Base", "Base", "b.py"}

\* the sets of at most k elements of S
SetsUpTo(S, k) == UNION {KSubsets(S, j) : j \in 0..Min(k, Cardinality(S))}

\* the graph of the nodes ns and the edges es
GraphOf(ns, es) ==
    [node |-> [n \in ns |-> EmptyMap], edge |-> [e \in es |-> "import"]]

\* the chain n1 <- n2 <- ... <- nk
ChainId(i) == "n" \o ToString(i)
Chain(k) ==
    GraphOf({ChainId(i) : i \in 1..k}, {<<ChainId(i + 1), ChainId(i)>> : i \in 1..(k - 1)})

\* the targets asked for: the ids, a proper suffix of one id ("::Base"), of
\* two ("e"), of the files ("py"), an id that is a suffix of another
\* ("Base", among the ids), and a string that is neither
ImpactTargets == ImpactIds \cup {"::Base", "e", "py", "zzz"}

InitImpact ==
    /\ root = "r1"
    /\ \E G \in {GraphOf(ImpactIds, es) : es \in SetsUpTo(ImpactIds \X ImpactIds, MaxEdges)}
                \cup {Chain(k) : k \in 1..MaxChain} :
          /\ graph = G
          /\ states = InitStates(G)
    /\ file = [r \in Roots |-> NoFile]
    /\ saved = [r \in Roots |-> EmptyMap]
    /\ tree = [r \in Roots |-> TreeBroken]
    /\ now = 2
    /\ lost = [r \in Roots |-> EmptyMap]
    /\ refreshed = NoRoot
    /\ in_nodes = << >>
    /\ in_edges = << >>
    /\ built = NotBuilt
    /\ InitIdle

\* analyze_impact(target_node) is called and returns; it reads the graph and
\* writes nothing, so one call per graph shows all it does
AnalyzeImpact(target_node) ==
    /\ root # NoRoot
    /\ call = NoCall
    /\ \E prediction \in analyze_impact(graph, target_node) :
          call' = [op |-> "analyze_impact", target_node |-> target_node,
                   prediction |-> prediction]
    /\ UNCHANGED << svars, bvars, cvars, fed >>

NextImpact ==
    \E target_node \in ImpactTargets \cup {ChainId(i) : i \in 1..MaxChain} :
        AnalyzeImpact(target_node)

SpecImpact == InitImpact /\ [][NextImpact]_vars

\* analyze_impact has returned
Analyzed == call.op = "analyze_impact"

\* the nodes of the graph with an edge that points at t
PointingAt(t) == {u \in DOMAIN graph.node : <<u, t>> \in DOMAIN graph.edge}

\* C14: when the target resolves to a node (itself when it is a node, else a
\* node whose id ends with it), direct_impact is exactly the set of the
\* predecessors of that node; with no predecessors, direct_impact = [],
\* ripple_effect = [] and risk_score = 0.
DirectImpactIsPredecessors ==
    Analyzed /\ (has_node(graph, call.target_node) \/ Matches(graph, call.target_node) # {}) =>
        LET prediction == call.prediction
            t == prediction.target_node
        IN  /\ has_node(graph, t)
            /\ has_node(graph, call.target_node) => t = call.target_node
            /\ EndsWith(t, call.target_node)
            /\ prediction.direct_impact = PointingAt(t)
            /\ PointingAt(t) = {} =>
                  /\ prediction.direct_impact = {}
                  /\ prediction.ripple_effect = {}
                  /\ prediction.risk_score = 0

\* a target resolved by its suffix to a node with a self-loop and another
\* predecessor
DirectImpactIsPredecessors_Witness ==
    /\ Analyzed
    /\ call.target_node = "::Base"
    /\ call.prediction.target_node = "a.py::Base"
    /\ call.prediction.direct_impact = {"a.py::Base", "a.py"}

\* C15: ripple_effect holds neither the target nor an id of direct_impact,
\* and every id in it is an ancestor of a direct dependent, on graphs with
\* cycles and self-loops too.
RippleExcludesDirect ==
    Analyzed =>
        LET prediction == call.prediction
        IN  /\ prediction.target_node \notin prediction.ripple_effect
            /\ prediction.ripple_effect \cap prediction.direct_impact = {}
            /\ \A n \in prediction.ripple_effect :
                  \E bid \in prediction.direct_impact : n \in ancestors(graph, bid)

\* the target lies on a cycle through its direct dependent, so it is an
\* ancestor of that dependent, and the ripple holds another ancestor
RippleExcludesDirect_Witness ==
    /\ Analyzed
    /\ \E bid \in call.prediction.direct_impact :
          /\ bid # call.prediction.target_node
          /\ call.prediction.target_node \in ancestors(graph, bid)
    /\ call.prediction.ripple_effect # {}

\* C16: risk_score = min(100, 10 x |direct_impact| + 2 x |ripple_effect|) of
\* the returned direct_impact and ripple_effect, and ripple_effect holds at
\* most 20 ids.  (risk_score is computed from ripple_list before
\* ripple_list[:20] cuts it, so with more than 20 ripple dependents the
\* equation does not hold.)
RiskScoreOfReturned ==
    Analyzed =>
        /\ Cardinality(call.prediction.ripple_effect) <= RippleCap
        /\ call.prediction.risk_score =
              Min(RiskCap, DirectWeight * Cardinality(call.prediction.direct_impact)
                           + RippleWeight * Cardinality(call.prediction.ripple_effect))

\* the prediction of an unresolved target
ZeroImpact(target_node) == ImpactPrediction(target_node, {}, {}, 0)

\* C17: a target that is a node resolves to itself, even when it is a suffix
\* of another id; a target that is neither a node nor a suffix of a node id
\* gets the zero-impact prediction as the result of the call; and the call
\* changes neither the graph nor any state nor the overlay file.
UnresolvedIsZeroImpact ==
    /\ [](Analyzed =>
            /\ has_node(graph, call.target_node) =>
                  call.prediction.target_node = call.target_node
            /\ (~has_node(graph, call.target_node)
                /\ \A n \in DOMAIN graph.node : ~EndsWith(n, call.target_node)) =>
                  call.prediction = ZeroImpact(call.target_node))
    /\ [][\A target_node \in ImpactTargets :
             AnalyzeImpact(target_node) => UNCHANGED << root, graph, states, file >>]_vars

\* an unresolved target on a graph with edges got the zero-impact prediction
UnresolvedIsZeroImpact_Witness ==
    /\ Analyzed
    /\ call.target_node = "zzz"
    /\ call.prediction = ZeroImpact("zzz")
    /\ DOMAIN graph.edge # {}

(***************************************************************************)
(* load_state on its own, on overlay files that save_state did not write:   *)
(* every document of the entries below, in every order of its keys.         *)
(***************************************************************************)
\* a file whose text json.loads cannot parse
Unparsable == [unparsable |-> TRUE]

\* an entry as save_state writes it
GoodEntry ==
    to_dict(ApplyEvent(ApplyEvent(NeuronState, "error", [message |-> "boom"], 1),
                       "execution", EmptyMap, 1))

\* an entry that is a JSON string, not an object
NotAnObject == [text |-> "oops"]

\* an entry whose last_active is not an ISO-8601 instant
BadStamp == [GoodEntry EXCEPT !.last_active = "yesterday"]

\* the entry of a node that no event reached: last_active is null
QuietEntry == to_dict(NeuronState)

Entries == {GoodEntry, QuietEntry, NotAnObject, BadStamp}

\* the entries that do not have the form of the schema
IllFormed(state_dict) == state_dict \in {NotAnObject, BadStamp}

\* whether the body of the loop raises on the entry: state_dict.get on a
\* string (AttributeError), datetime.fromisoformat on a string that is no
\* instant (ValueError)
EntryRaises(state_dict) ==
    \/ "text" \in DOMAIN state_dict
    \/ /\ Get(state_dict, "last_active", Null) # Null
       /\ Get(state_dict, "last_active", Null) \notin {isoformat(t) : t \in Instants}

\* the loop of load_state over the entries ss in the order ord of the keys of
\* the document (107-115): an entry whose id the map lacks is skipped before
\* it is looked at; the first entry that raises ends the loop, what was
\* assigned before stays
RECURSIVE LoadEntries(_, _, _)
LoadEntries(st, ss, ord) ==
    IF ord = << >> THEN st
    ELSE LET node_id_ == Head(ord)
         IN  IF node_id_ \notin DOMAIN st THEN LoadEntries(st, ss, Tail(ord))
             ELSE IF EntryRaises(ss[node_id_]) THEN st
             ELSE LoadEntries([st EXCEPT ![node_id_] = LoadEntry(@, ss[node_id_])],
                              ss, Tail(ord))

\* NeuroArchitect.load_state on any file (99-118): nothing without a file,
\* nothing when json.loads raises, else the loop
load_document(st, f, ord) ==
    IF ~f.exists \/ "unparsable" \in DOMAIN f.data THEN st
    ELSE LoadEntries(st, Get(f.data, "states", EmptyMap), ord)

\* the orders of the keys of a document
Orders(S) == {ord \in [1..Cardinality(S) -> S] : \A i, j \in 1..Cardinality(S) : i # j => ord[i] # ord[j]}

\* the ids of the entries: two nodes of the graph and an id that is none
DocumentIds == {"a.py", "a.py::f", "ghost.py"}

\* the documents: each id has one of the entries or none
Documents ==
    {[n \in ids |-> pick[n]] : ids \in SUBSET DocumentIds, pick \in [DocumentIds -> Entries]}

InitLoad ==
    /\ root = "r1"
    /\ LET arch == initialize(TreeFlat, NoFile)
       IN  /\ graph = arch.graph
           /\ states = [arch.states EXCEPT !["a.py::f"] =
                            ApplyEvent(@, "execution", EmptyMap, 1)]
    /\ \E f \in {NoFile, BrainFile(Unparsable)}
                \cup {BrainFile([timestamp |-> isoformat(1), states |-> ss]) : ss \in Documents} :
          file = [r \in Roots |-> IF r = "r1" THEN f ELSE NoFile]
    /\ saved = [r \in Roots |-> EmptyMap]
    /\ tree = [r \in Roots |-> IF r = "r1" THEN TreeFlat ELSE TreeClass]
    /\ now = 2
    /\ lost = [r \in Roots |-> EmptyMap]
    /\ refreshed = NoRoot
    /\ in_nodes = << >>
    /\ in_edges = << >>
    /\ built = NotBuilt
    /\ InitIdle

\* the domain of the entries of a file
KeysOf(f) ==
    IF f.exists /\ "states" \in DOMAIN f.data THEN DOMAIN f.data.states ELSE {}

\* load_state is called on the file of the mounted root
LoadDocument ==
    /\ root # NoRoot
    /\ \E ord \in Orders(KeysOf(file[root])) :
          states' = load_document(states, file[root], ord)
    /\ UNCHANGED << root, graph, file, tree, now, saved, lost, refreshed, elsewhere >>

NextLoad == LoadDocument

SpecLoad == InitLoad /\ [][NextLoad]_vars

\* the file is present and malformed: its text is unparsable, or an entry of
\* it does not have the form of the schema
Malformed(f) ==
    /\ f.exists
    /\ \/ "unparsable" \in DOMAIN f.data
       \/ \E n \in KeysOf(f) : IllFormed(f.data.states[n])

\* C18: load_state changes nothing when the overlay file is absent, and
\* nothing when it is present and malformed: every NeuronState is as it was
\* before the load.  (The entries that precede the one that raises are
\* assigned and stay assigned, so the property does not hold.)
MalformedLoadsNothing ==
    [][LoadDocument /\ (~file[root].exists \/ Malformed(file[root])) =>
          states' = states]_vars

(***************************************************************************)
(* The operations the transport calls (mcp_server.py): each validates the   *)
(* path, mounts the root through get_neuro_architect, does its work and     *)
(* returns a dict; whatever is raised on the way becomes a dict too.        *)
(***************************************************************************)
\* a path outside the working directory of the server
Outside == "/etc"

\* the paths given as target_project / project
Targets == Roots \cup {Outside}

\* validate_path(path) returns: the path is under the working directory and
\* has no restricted component (27-48); otherwise it raises PermissionError
Validates(path) == path \in Roots

\* the dict of the except clause of every operation
Failure(message) == [success |-> FALSE, error |-> message]

\* str(e) of the PermissionError of validate_path
AccessDenied(path) ==
    "Acceso denegado: El path " \o path \o " está fuera de la zona permitida."

\* get_neuro_architect(r) with the history of the overlays a rebuild loses
Mounted(r) ==
    LET inst == get_neuro_architect(r)
    IN  [root |-> inst.root, graph |-> inst.graph, states |-> inst.states,
         lost |-> IF Constructs(r) THEN Loses(r, inst.graph, inst.states) ELSE lost]

\* the call of op with the arguments args has returned result; rebuilt: the
\* call constructed a NeuroArchitect
Returned(op, target, args, rebuilt, result) ==
    call' = [op |-> op, target |-> target, args |-> args, rebuilt |-> rebuilt,
             result |-> result]

\* an operation that validate_path stops: nothing but the result
Rejected(op, target, args) ==
    /\ ~Validates(target)
    /\ Returned(op, target, args, FALSE, Failure(AccessDenied(target)))
    /\ UNCHANGED << svars, bvars, cvars, fed >>

\* refresh_vision_logic(target_project)
RefreshVision(target) ==
    \/ Rejected("refresh_vision", target, << >>)
    \/ /\ Validates(target)
       /\ \E m \in {Mounted(target)} :
              /\ root' = m.root
              /\ graph' = m.graph
              /\ states' = m.states
              /\ lost' = m.lost
       /\ refreshed' = target
       /\ Returned("refresh_vision", target, << >>, Constructs(target),
                   [success |-> TRUE,
                    message |-> "Arquitectura refrescada para " \o target])
       /\ UNCHANGED << file, tree, now, saved, bvars, cvars, fed >>

\* NeuroArchitect.get_brain_state on the graph and the state map, read in one
\* piece
get_brain_state(G, st, t) ==
    [timestamp |-> isoformat(t),
     nodes |-> [n \in DOMAIN G.node |->
                  [id |-> n,
                   label |-> Get(G.node[n], "name", n),
                   type |-> NodeType(G, n),
                   state |-> to_dict(Get(st, n, NeuronState)),
                   metrics |-> [in_degree |-> Cardinality({e \in DOMAIN G.edge : e[2] = n}),
                                out_degree |-> Cardinality({e \in DOMAIN G.edge : e[1] = n})]]],
     links |-> G.edge,
     neuron_count |-> Cardinality(DOMAIN G.node),
     synapse_count |-> Cardinality(DOMAIN G.edge)]

\* the actions asked of visualize_architecture
VisualActions == {"render", "graph", "rotate"}

\* the dict visualize_architecture_logic returns for an action on the
\* mounted graph; export_neuro_map writes <root>/.ai/visuals/neuro_map.html,
\* a file that no operation reads and that the scan leaves out
Visualized(action, r, G, st, t) ==
    CASE action = "render" ->
           [success |-> TRUE, html_path |-> r \o "/.ai/visuals/neuro_map.html"]
      [] action = "graph" ->
           [success |-> TRUE, data |-> get_brain_state(G, st, t)]
      [] OTHER -> Failure("Acción '" \o action \o "' no soportada.")

\* visualize_architecture_logic(action, target_project)
VisualizeArchitecture(action, target) ==
    \/ Rejected("visualize_architecture", target, << action >>)
    \/ /\ Validates(target)
       /\ \E m \in {Mounted(target)} :
              /\ root' = m.root
              /\ graph' = m.graph
              /\ states' = m.states
              /\ lost' = m.lost
              /\ Returned("visualize_architecture", target, << action >>,
                          Constructs(target),
                          Visualized(action, target, m.graph, m.states, now))
       /\ refreshed' = NoRoot
       /\ UNCHANGED << file, tree, now, saved, bvars, cvars, fed >>

\* ImpactPrediction.to_dict: asdict and affected_nodes
PredictionDict(prediction) ==
    [target_node |-> prediction.target_node,
     direct_impact |-> prediction.direct_impact,
     ripple_effect |-> prediction.ripple_effect,
     risk_score |-> prediction.risk_score,
     affected_nodes |-> prediction.direct_impact \cup prediction.ripple_effect]

\* analyze_impact_logic(target_node, target_project)
AnalyzeImpactOf(target_node, target) ==
    \/ Rejected("analyze_impact", target, << target_node >>)
    \/ /\ Validates(target)
       /\ \E m \in {Mounted(target)} :
              /\ root' = m.root
              /\ graph' = m.graph
              /\ states' = m.states
              /\ lost' = m.lost
              /\ \E prediction \in analyze_impact(m.graph, target_node) :
                    Returned("analyze_impact", target, << target_node >>,
                             Constructs(target),
                             [success |-> TRUE, prediction |-> PredictionDict(prediction)])
       /\ refreshed' = NoRoot
       /\ UNCHANGED << file, tree, now, saved, bvars, cvars, fed >>

\* send_telemetry_logic(node, event_type, metadata, project): metadata or {}
\* is the payload of ingest_telemetry, which saves
SendTelemetry(node, event_type, metadata, target) ==
    \/ Rejected("send_telemetry", target, << node, event_type >>)
    \/ /\ Validates(target)
       /\ now < MaxEvents + 2
       /\ \E m \in {Mounted(target)} :
           \E arch \in {ingest_telemetry(m.graph, m.states, node, event_type, metadata, now)} :
              /\ root' = m.root
              /\ graph' = arch.graph
              /\ states' = arch.states
              /\ file' = [file EXCEPT ![target] = BrainFile(BrainData(arch.states, now))]
              /\ saved' = [saved EXCEPT ![target] = arch.states]
              /\ lost' = [m.lost EXCEPT ![target] =
                            [n \in {k \in DOMAIN @ : k \notin DOMAIN arch.states
                                                     \/ arch.states[k] = NeuronState}
                                |-> TRUE]]
       /\ now' = now + 1
       /\ refreshed' = NoRoot
       /\ Returned("send_telemetry", target, << node, event_type >>, Constructs(target),
                   [success |-> TRUE,
                    message |-> "Evento " \o event_type \o " recibido para " \o node])
       /\ UNCHANGED << tree, bvars, cvars, fed >>

\* the targets asked of analyze_impact: a node id, a suffix, neither
AnalysisTargets == {"a.py", "f", "zzz"}

\* the server starts: r1 has sources that parse or do not, and an overlay
\* file that is absent, written by an earlier session, or unparsable; r2
\* cannot be read
InitTools ==
    /\ root = NoRoot
    /\ graph = EmptyGraph
    /\ states = EmptyMap
    /\ \E f \in {NoFile, PriorFile, BrainFile(Unparsable)} :
          /\ file = [r \in Roots |-> IF r = "r1" THEN f ELSE NoFile]
          /\ saved = [r \in Roots |->
                        IF r = "r1" /\ f = PriorFile THEN PriorStates ELSE EmptyMap]
    /\ \E files \in {TreeFlat, TreeBroken} :
          tree = [r \in Roots |-> IF r = "r1" THEN files ELSE Inaccessible]
    /\ now = 2
    /\ lost = [r \in Roots |-> EmptyMap]
    /\ refreshed = NoRoot
    /\ in_nodes = << >>
    /\ in_edges = << >>
    /\ built = NotBuilt
    /\ InitIdle

NextTools ==
    \/ \E target \in Targets : RefreshVision(target)
    \/ \E action \in VisualActions, target \in Targets : VisualizeArchitecture(action, target)
    \/ \E target_node \in AnalysisTargets, target \in Targets :
          AnalyzeImpactOf(target_node, target)
    \/ \E node \in TelemetryIds, event_type \in EventTypes, metadata \in Payloads,
          target \in Targets : SendTelemetry(node, event_type, metadata, target)

SpecTools == InitTools /\ [][NextTools]_vars

\* C19: a refresh that constructs a NeuroArchitect returns a failure result
\* when the root cannot be read, and a success result otherwise, whether or
\* not a source file fails to parse or the overlay file fails to load.
\* (_initialize catches whatever the scan raises and only logs it, so the
\* refresh of a root that cannot be read returns success.)
RootFailureSurfaces ==
    (call.op = "refresh_vision" /\ Validates(call.target) /\ call.rebuilt) =>
        (Denied(tree[call.target]) <=> ~call.result.success)

\* C20: the result of every operation of the transport has a success flag,
\* carries its data under the key payload when success is true and a message
\* under the key error when success is false.  (The successful results carry
\* message, html_path, data or prediction, none carries payload.)
ResultsCarryPayload ==
    call.op # "none" =>
        /\ "success" \in DOMAIN call.result
        /\ call.result.success => "payload" \in DOMAIN call.result
        /\ ~call.result.success => "error" \in DOMAIN call.result

(***************************************************************************)
(* Duplicate edge records given to build_graph.                             *)
(***************************************************************************)
\* the graph build_graph has when it comes to the i-th edge record
GraphBefore(i) == BuildEdges(BuildNodes(EmptyGraph, in_nodes, 1), SubSeq(in_edges, 1, i - 1), 1)

\* the edge records that build_graph does not skip: the source is a node
\* when the record is reached
KeptRecords == {i \in 1..Len(in_edges) : has_node(GraphBefore(i), in_edges[i].source)}

\* two edge records between the same pair of nodes are of the same kind
DuplicatesAreOfOneKind ==
    \A i, j \in 1..Len(in_edges) :
        (in_edges[i].source = in_edges[j].source /\ in_edges[i].target = in_edges[j].target)
            => in_edges[i].edge_type = in_edges[j].edge_type

\* C21: the built graph, and the links and the synapse_count of its
\* snapshot, hold one edge per edge record whose source is a node, duplicates
\* of the same kind between the same pair included.  (The graph is a
\* DiGraph, which holds one edge per pair: the second add_edge of a pair
\* only sets edge_type again.)
DuplicateEdgesKept ==
    (built.done /\ DuplicatesAreOfOneKind) =>
        /\ Cardinality(DOMAIN built.G.edge) = Cardinality(KeptRecords)
        /\ get_brain_state(built.G, InitStates(built.G), now).synapse_count
              = Cardinality(KeptRecords)

(***************************************************************************)
(* The scan of a tree some of whose files do not parse.                     *)
(***************************************************************************)
\* the most *.py files under a scanned root
MaxFiles == 2

\* what ast.walk meets in a file that parses
DeclLists ==
    { << >>,
      << Import("os"), Import("requests"), FunctionDef("f", "") >>,
      << ClassDef("A", << "Base" >>), FunctionDef("g", "A") >>,
      << Import("a") >> }

\* rel_path and stem of the files rglob("*.py") may yield
ScanPaths == {<< "a.py", "a" >>, << "b.py", "b" >>, << "pkg/c.py", "c" >>}

\* a file: it parses to one of the declaration lists, or ast.parse raises
FilesAt(p) ==
    {SourceFile(p[1], p[2], TRUE, d) : d \in DeclLists}
        \cup {SourceFile(p[1], p[2], FALSE, << >>)}

\* the trees of at most MaxFiles files, in any order of rglob
ScanTrees ==
    UNION {{t \in [1..n -> UNION {FilesAt(p) : p \in ScanPaths}] :
               \A i, j \in 1..n : t[i].path = t[j].path => i = j} : n \in 0..MaxFiles}

InitScan ==
    /\ root = NoRoot
    /\ graph = EmptyGraph
    /\ states = EmptyMap
    /\ file = [r \in Roots |-> NoFile]
    /\ saved = [r \in Roots |-> EmptyMap]
    /\ \E t \in ScanTrees : tree = [r \in Roots |-> IF r = "r1" THEN t ELSE TreeBroken]
    /\ now = 2
    /\ lost = [r \in Roots |-> EmptyMap]
    /\ refreshed = NoRoot
    /\ in_nodes = << >>
    /\ in_edges = << >>
    /\ built = NotBuilt
    /\ InitIdle

\* VisionArchitect("r1").scan_project() returns (nodes, edges)
ScanProject ==
    /\ call = NoCall
    /\ \E r \in {scan_project(tree["r1"])} :
          /\ in_nodes' = r.nodes
          /\ in_edges' = r.edges
    /\ call' = [op |-> "scan_project", target |-> "r1"]
    /\ UNCHANGED << svars, built, cvars, fed >>

NextScan == ScanProject

SpecScan == InitScan /\ [][NextScan]_vars

\* ast.parse(content) returns
Parses(f) == f.parses

\* C22: a file whose parse fails adds no node and no edge to the result of
\* the scan, which holds the complete nodes and edges of every other file:
\* the scan returns what it returns for the tree without the failing files.
\* (The file node is put into nodes before the try block, so it stays.)
FailedFilesAddNothing ==
    call.op = "scan_project" =>
        LET others == scan_project(SelectSeq(tree["r1"], Parses))
        IN  /\ in_nodes = others.nodes
            /\ in_edges = others.edges

(***************************************************************************)
(* ingest_telemetry called by three threads at once: what save_state        *)
(* writes.                                                                  *)
(***************************************************************************)
NextSave ==
    \/ \E c \in Threads, n \in TelemetryIds, ev \in EventTypes, p \in Payloads :
          Enter(c, n, ev, p)
    \/ \E c \in Threads : CreateState(c)
    \/ \E c \in Threads : Stamp(c)
    \/ \E c \in Threads : Event(c)
    \/ \E c \in Threads : Log(c)
    \/ \E c \in Threads : Capture(c)
    \/ \E c \in Threads : Write(c)
    \/ \E c \in Threads : WriteRaises(c)

SpecSave == InitConc /\ [][NextSave]_vars

\* every call of ingest_telemetry has returned
AllReturned == \A c \in Threads : threads[c].pc = "done"

\* C23: once all concurrent calls of ingest_telemetry have returned, the
\* overlay file reflects every ingested event: it holds the document of the
\* final state map.  (save_state writes outside the lock, so the document
\* captured first may be written last.)
FileHoldsFinalStates ==
    AllReturned => file[root] = BrainFile(BrainData(states, now))

\* C24: every document save_state has written is an atomic snapshot: for each
\* node, its activation_level, error_rate, active_variables and logs are
\* those the state map held at one instant inside the lock.  (The document
\* shares active_variables with the state, so it has the variables of the
\* time of json.dumps next to the levels of the time of the capture.)
DocumentIsAtomicSnapshot ==
    file[root].exists =>
        \A n \in DOMAIN file[root].data.states :
            \E h \in held :
                /\ n \in DOMAIN h
                /\ \A k \in DOMAIN h[n] : file[root].data.states[n][k] = h[n][k]

====
